---- MODULE Spec2Model ----
(***************************************************************************)
(* Model of src/BackendEcommerce.py: a FastAPI product/order backend over  *)
(* a MongoDB store.  The state is the process-wide connection handle, the  *)
(* two collections of the store, and the response of the request handled   *)
(* last.  Handlers are `async def` bodies without an await, so the process *)
(* runs them one at a time; only the store's environment (reachability,    *)
(* other clients of the store) interleaves with a handler, which is why    *)
(* create_order is split at the boundary between its two store calls.      *)
(*                                                                         *)
(* Product names and sizes are sequences of characters (a query string    *)
(* may be empty, the name filter folds case), ObjectId strings are         *)
(* <<form, value>> pairs (form "hex", "HEX" or "bad"), floats are          *)
(* integers, and an Optional value is a sequence of length 0 or 1.  The    *)
(* created_at timestamps are left out: no handler reads them.              *)
(***************************************************************************)
EXTENDS Integers, Sequences, FiniteSets, TLC

\* ---------------------------------------------------------------- bounds
MaxOid == 3
MaxItems == 2
MaxOffset == 2

\* Query(ge=1, le=100) of limit
LimitMin == 1
LimitMax == 100

VARIABLES storeUp, connected, products, orders, nextOid, pending, resp

vars == <<storeUp, connected, products, orders, nextOid, pending, resp>>

\* ------------------------------------------------------------- optionals
None == <<>>
Some(x) == <<x>>

Min(a, b) == IF a < b THEN a ELSE b
Max(a, b) == IF a > b THEN a ELSE b

\* ------------------------------------------------------------ conversions
DigitChars == <<"0", "1", "2", "3", "4", "5", "6", "7", "8", "9">>

\* str(n) of a non-negative int: its decimal digits
RECURSIVE IntToStr(_)
IntToStr(n) ==
    IF n < 10 THEN <<DigitChars[n + 1]>>
    ELSE Append(IntToStr(n \div 10), DigitChars[(n % 10) + 1])

\* ObjectId(s): raises InvalidId unless s is 24 hex digits of either case
ObjectIdValid(s) == s[1] \in {"hex", "HEX"}
ObjectId(s) == s[2]
\* str(oid): the lower-case hex rendering
StrOid(oid) == <<"hex", oid>>

ToLower(c) ==
    CASE c = "A" -> "a"
      [] c = "B" -> "b"
      [] OTHER -> c

LowerStr(s) == [i \in 1..Len(s) |-> ToLower(s[i])]

\* {"$regex": pattern, "$options": "i"} for a pattern of literal characters:
\* an unanchored, case-insensitive search
RegexSearchI(pattern, s) ==
    \E i \in 1..(Len(s) - Len(pattern) + 1) :
        SubSeq(LowerStr(s), i, i + Len(pattern) - 1) = LowerStr(pattern)

\* ----------------------------------------------------------------- inputs
SizeS == <<[size |-> <<"S">>, quantity |-> 1]>>
SizeMS == <<[size |-> <<"M">>, quantity |-> 2], [size |-> <<"S">>, quantity |-> 0]>>

ProductInputs ==
    { [name |-> <<"A", "b">>, price |-> 3, sizes |-> SizeS],
      [name |-> <<"b", "c">>, price |-> 5, sizes |-> SizeMS] }

Prices == {3, 5}
Users == {"u1", "u2"}

\* productId strings: oid 0 is never issued, "HEX" is an upper-case spelling,
\* "bad" is not 24 hex digits
ItemInputs ==
    { [productId |-> <<"hex", 0>>, qty |-> 1],
      [productId |-> <<"hex", 1>>, qty |-> 1],
      [productId |-> <<"HEX", 1>>, qty |-> 2],
      [productId |-> <<"hex", 2>>, qty |-> 2],
      [productId |-> <<"bad", 0>>, qty |-> 1] }

SeqsUpTo(S, n) == UNION {[1..k -> S] : k \in 0..n}

OrderInputs == [userId : Users, items : SeqsUpTo(ItemInputs, MaxItems)]

\* name and size of GET /products: absent, given, or given empty
FilterInputs ==
    { [name |-> None, size |-> None],
      [name |-> None, size |-> Some(<<"M">>)],
      [name |-> Some(<<"a">>), size |-> Some(<<>>)],
      [name |-> Some(<<"B">>), size |-> Some(<<"S">>)] }
Limits == {LimitMin, LimitMin + 1, LimitMax}
Offsets == 0..MaxOffset

\* --------------------------------------------------------------- responses
NoResp == [op |-> "none"]

\* What the caller gets (status, body) and, for the properties, what was
\* handled: the operation, whether the handle existed when the request came
\* in, and the request.  A request that meets an unreachable store fails the
\* same way whatever it asked, and is recorded as None.
Response(op, status, hadHandle, req, body) ==
    [op |-> op, status |-> status, hadHandle |-> hadHandle,
     req |-> IF storeUp THEN req ELSE None, body |-> body]

\* get_database raises HTTPException(503) when the ping fails
DetailUnavailable == "Database connection failed. Please ensure MongoDB is running"
DetailNotFound == "One or more products not found"
DetailInternal == "internal error"

\* get_database returns a handle: MongoClient(...) and the ping succeed
GetDatabaseOk == storeUp

\* a reconnect that is never attempted once the startup attempt failed
EnsureOkNoRetry == connected

\* ensure_db_connection returns normally: a handle exists or one can be made
EnsureOk == connected \/ GetDatabaseOk

\* -------------------------------------------------------- store queries
\* `if name:` / `if size:`: None and the empty string are both skipped
Truthy(opt) == opt # None /\ opt[1] # <<>>

\* filter_query of list_products: the keys it holds
ProductsFilterQuery(name, size) ==
    [name |-> IF Truthy(name) THEN name ELSE None,
     size |-> IF Truthy(size) THEN size ELSE None]

\* the store's evaluation of that filter on one product document
MatchesProductsFilter(doc, q) ==
    /\ q.name # None => RegexSearchI(q.name[1], doc.name)
    /\ q.size # None => \E i \in DOMAIN doc.sizes : doc.sizes[i].size = q.size[1]

FindProducts(q) ==
    LET Test(doc) == MatchesProductsFilter(doc, q)
    IN  SelectSeq(products, Test)

\* count_documents(filter_query)
CountProducts(q) == Len(FindProducts(q))

\* a cursor that forgets skip(offset)
SkipLimitNoSkip(docs, offset, limit) ==
    SubSeq(docs, 1, Min(Len(docs), limit))

\* cursor.skip(offset).limit(limit)
SkipLimit(docs, offset, limit) ==
    SubSeq(docs, offset + 1, Min(Len(docs), offset + limit))

\* the dict built per document in list_products: sizes are left out
ProductData(doc) ==
    [id |-> StrOid(doc._id), name |-> doc.name, price |-> doc.price]

\* a pagination block whose next test is off by one
ProductsPaginationInclusive(offset, limit, total_count) ==
    [next |-> IF offset + limit <= total_count
              THEN Some(IntToStr(offset + limit)) ELSE None,
     limit |-> limit,
     previous |-> IF offset > 0 THEN Some(Max(0, offset - limit)) ELSE None]

\* pagination block of list_products
ProductsPagination(offset, limit, total_count) ==
    [next |-> IF offset + limit < total_count
              THEN Some(IntToStr(offset + limit)) ELSE None,
     limit |-> limit,
     previous |-> IF offset > 0 THEN Some(Max(0, offset - limit)) ELSE None]

\* pagination block of get_user_orders
OrdersPagination(offset, limit, total_count) ==
    [next |-> IF offset + limit < total_count
              THEN Some(IntToStr(offset + limit)) ELSE None,
     limit |-> limit,
     previous |-> IF offset > 0 THEN Some(Max(0, offset - limit)) ELSE None]

\* product_doc of create_product once insert_one has given it an _id
ProductDoc(product, oid) ==
    [_id |-> oid, name |-> product.name, price |-> product.price,
     sizes |-> [i \in 1..Len(product.sizes) |->
                  [size |-> product.sizes[i].size,
                   quantity |-> product.sizes[i].quantity]]]

\* find({"_id": {"$in": product_ids}}): each matching document once
FindProductsIn(product_ids) ==
    LET idset == {product_ids[i] : i \in DOMAIN product_ids}
        Test(doc) == doc._id \in idset
    IN  SelectSeq(products, Test)

\* find_one({"_id": product_id})
FindOneProduct(product_id) ==
    LET Test(doc) == doc._id = product_id
        found == SelectSeq(products, Test)
    IN  IF found = <<>> THEN None ELSE Some(found[1])

\* find({"userId": user_id})
FindOrders(user_id) ==
    LET Test(doc) == doc.userId = user_id
    IN  SelectSeq(orders, Test)

\* an order document stored with another status
OrderDocPending(order, oid) ==
    [_id |-> oid, userId |-> order.userId,
     items |-> [i \in 1..Len(order.items) |->
                  [productId |-> order.items[i].productId,
                   qty |-> order.items[i].qty]],
     status |-> "pending"]

\* order_doc of create_order once insert_one has given it an _id
OrderDoc(order, oid) ==
    [_id |-> oid, userId |-> order.userId,
     items |-> [i \in 1..Len(order.items) |->
                  [productId |-> order.items[i].productId,
                   qty |-> order.items[i].qty]],
     status |-> "created"]

RECURSIVE OrderItemsLoop(_, _)

\* an inner loop that adds the price once per line item, whatever its qty
OrderItemsLoopIgnoresQty(items, n) ==
    IF n = 0 THEN [order_items |-> <<>>, total_amount |-> 0]
    ELSE LET acc == OrderItemsLoop(items, n - 1)
             item == items[n]
             product == FindOneProduct(ObjectId(item.productId))
         IN  IF product # None
             THEN [order_items |->
                     Append(acc.order_items,
                            [productDetails |-> [name |-> product[1].name,
                                                 id |-> item.productId],
                             qty |-> item.qty]),
                   total_amount |-> acc.total_amount + product[1].price]
             ELSE acc

\* the inner loop of get_user_orders over items[1..n]: the items kept and
\* the running total
OrderItemsLoop(items, n) ==
    IF n = 0 THEN [order_items |-> <<>>, total_amount |-> 0]
    ELSE LET acc == OrderItemsLoop(items, n - 1)
             item == items[n]
             product == FindOneProduct(ObjectId(item.productId))
         IN  IF product # None
             THEN [order_items |->
                     Append(acc.order_items,
                            [productDetails |-> [name |-> product[1].name,
                                                 id |-> item.productId],
                             qty |-> item.qty]),
                   total_amount |-> acc.total_amount + product[1].price * item.qty]
             ELSE acc

\* order_data of one order document
OrderData(order_doc) ==
    LET r == OrderItemsLoop(order_doc.items, Len(order_doc.items))
    IN  [id |-> StrOid(order_doc._id), items |-> r.order_items,
         total |-> r.total_amount]

\* ------------------------------------------------------------------- Init
Init ==
    /\ storeUp \in BOOLEAN
    /\ connected = storeUp
    /\ products = <<>>
    /\ orders = <<>>
    /\ nextOid = 1
    /\ pending = None
    /\ resp = NoResp

\* ------------------------------------------------------------ environment
\* The store and its other clients move between requests and between the two
\* store calls of create_order, not while a response is being sent.
StoreGoesDown ==
    /\ resp = NoResp
    /\ storeUp
    /\ storeUp' = FALSE
    /\ UNCHANGED <<connected, products, orders, nextOid, pending, resp>>

StoreComesUp ==
    /\ resp = NoResp
    /\ ~storeUp
    /\ storeUp' = TRUE
    /\ UNCHANGED <<connected, products, orders, nextOid, pending, resp>>

\* another client of the store removes a product
ExtDeleteProduct ==
    /\ resp = NoResp
    /\ storeUp
    /\ \E i \in DOMAIN products :
         products' = SubSeq(products, 1, i - 1) \o SubSeq(products, i + 1, Len(products))
    /\ UNCHANGED <<storeUp, connected, orders, nextOid, pending, resp>>

\* another client of the store raises a product's price
ExtUpdatePrice ==
    /\ resp = NoResp
    /\ storeUp
    /\ \E i \in DOMAIN products : \E p \in Prices :
         /\ p > products[i].price
         /\ products' = [products EXCEPT ![i].price = p]
    /\ UNCHANGED <<storeUp, connected, orders, nextOid, pending, resp>>

\* ---------------------------------------------------------------- handlers
\* POST /products
create_product ==
    /\ pending = None
    /\ resp = NoResp
    /\ nextOid <= MaxOid
    /\ \E product \in ProductInputs :
         IF ~EnsureOk
         THEN /\ resp' = Response("create_product", 503, connected, product,
                                  DetailUnavailable)
              /\ UNCHANGED <<connected, products, nextOid>>
         ELSE /\ connected' = TRUE
              /\ IF storeUp
                 THEN /\ products' = Append(products, ProductDoc(product, nextOid))
                      /\ nextOid' = nextOid + 1
                      /\ resp' = Response("create_product", 201, connected, product,
                                          [id |-> StrOid(nextOid)])
                 ELSE /\ resp' = Response("create_product", 500, connected, product,
                                          DetailInternal)
                      /\ UNCHANGED <<products, nextOid>>
    /\ UNCHANGED <<storeUp, orders, pending>>

\* GET /products
list_products ==
    /\ pending = None
    /\ resp = NoResp
    /\ \E f \in FilterInputs, limit \in Limits, offset \in Offsets :
         LET name == f.name
             size == f.size
             req == [name |-> name, size |-> size, limit |-> limit,
                     offset |-> offset]
             filter_query == ProductsFilterQuery(name, size)
             total_count == CountProducts(filter_query)
             cursor == SkipLimit(FindProducts(filter_query), offset, limit)
             data == [i \in 1..Len(cursor) |-> ProductData(cursor[i])]
         IN  IF ~EnsureOk
             THEN /\ resp' = Response("list_products", 503, connected, req,
                                      DetailUnavailable)
                  /\ UNCHANGED connected
             ELSE /\ connected' = TRUE
                  /\ resp' = IF storeUp
                             THEN Response("list_products", 200, connected, req,
                                    [data |-> data,
                                     page |-> ProductsPagination(offset, limit,
                                                                 total_count)])
                             ELSE Response("list_products", 500, connected, req,
                                           DetailInternal)
    /\ UNCHANGED <<storeUp, products, orders, nextOid, pending>>

\* POST /orders up to and including the existence check
CreateOrderCheck ==
    /\ pending = None
    /\ resp = NoResp
    /\ nextOid <= MaxOid
    /\ \E order \in OrderInputs :
         LET items == order.items
             allValid == \A i \in DOMAIN items : ObjectIdValid(items[i].productId)
             product_ids == [i \in 1..Len(items) |-> ObjectId(items[i].productId)]
             existing_products == FindProductsIn(product_ids)
         IN  IF ~EnsureOk
             THEN /\ resp' = Response("create_order", 503, connected, order,
                                      DetailUnavailable)
                  /\ UNCHANGED <<connected, pending>>
             ELSE /\ connected' = TRUE
                  /\ IF ~allValid \/ ~storeUp
                     THEN /\ resp' = Response("create_order", 500, connected, order,
                                              DetailInternal)
                          /\ UNCHANGED pending
                     ELSE IF Len(existing_products) # Len(product_ids)
                     THEN /\ resp' = Response("create_order", 400, connected, order,
                                              DetailNotFound)
                          /\ UNCHANGED pending
                     ELSE /\ pending' = Some([order |-> order, hadHandle |-> connected])
                          /\ resp' = NoResp
    /\ UNCHANGED <<storeUp, products, orders, nextOid>>

\* an insert step that looks the products up again and refuses the order
\* when one is gone
CreateOrderInsertRevalidates ==
    /\ pending # None
    /\ resp = NoResp
    /\ LET order == pending[1].order
           had == pending[1].hadHandle
           product_ids == [i \in 1..Len(order.items) |->
                             ObjectId(order.items[i].productId)]
       IN  IF ~storeUp
           THEN /\ resp' = Response("create_order", 500, had, order, DetailInternal)
                /\ UNCHANGED <<orders, nextOid>>
           ELSE IF Len(FindProductsIn(product_ids)) # Len(product_ids)
           THEN /\ resp' = Response("create_order", 400, had, order, DetailNotFound)
                /\ UNCHANGED <<orders, nextOid>>
           ELSE /\ orders' = Append(orders, OrderDoc(order, nextOid))
                /\ nextOid' = nextOid + 1
                /\ resp' = Response("create_order", 201, had, order,
                                    [id |-> StrOid(nextOid)])
    /\ pending' = None
    /\ UNCHANGED <<storeUp, connected, products>>

\* POST /orders from insert_one on
CreateOrderInsert ==
    /\ pending # None
    /\ resp = NoResp
    /\ LET order == pending[1].order
           had == pending[1].hadHandle
       IN  IF storeUp
           THEN /\ orders' = Append(orders, OrderDoc(order, nextOid))
                /\ nextOid' = nextOid + 1
                /\ resp' = Response("create_order", 201, had, order,
                                    [id |-> StrOid(nextOid)])
           ELSE /\ resp' = Response("create_order", 500, had, order, DetailInternal)
                /\ UNCHANGED <<orders, nextOid>>
    /\ pending' = None
    /\ UNCHANGED <<storeUp, connected, products>>

\* GET /orders/{user_id}
get_user_orders ==
    /\ pending = None
    /\ resp = NoResp
    /\ \E user_id \in Users, limit \in Limits, offset \in Offsets :
         LET req == [user_id |-> user_id, limit |-> limit, offset |-> offset]
             found == FindOrders(user_id)
             total_count == Len(found)
             cursor == SkipLimit(found, offset, limit)
             allValid == \A i \in DOMAIN cursor : \A j \in DOMAIN cursor[i].items :
                             ObjectIdValid(cursor[i].items[j].productId)
             orders_data == [i \in 1..Len(cursor) |-> OrderData(cursor[i])]
         IN  IF ~EnsureOk
             THEN /\ resp' = Response("get_user_orders", 503, connected, req,
                                      DetailUnavailable)
                  /\ UNCHANGED connected
             ELSE /\ connected' = TRUE
                  /\ resp' = IF storeUp /\ allValid
                             THEN Response("get_user_orders", 200, connected, req,
                                    [data |-> orders_data,
                                     page |-> OrdersPagination(offset, limit,
                                                               total_count)])
                             ELSE Response("get_user_orders", 500, connected, req,
                                           DetailInternal)
    /\ UNCHANGED <<storeUp, products, orders, nextOid, pending>>

\* GET /
root ==
    /\ pending = None
    /\ resp = NoResp
    /\ resp' = Response("root", 200, connected, None,
                        [message |-> "Ecommerce Backend API is running"])
    /\ UNCHANGED <<storeUp, connected, products, orders, nextOid, pending>>

\* GET /health
health_check ==
    /\ pending = None
    /\ resp = NoResp
    /\ connected' = (connected \/ EnsureOk)
    /\ resp' = IF (connected \/ EnsureOk) /\ storeUp
               THEN Response("health_check", 200, connected, None,
                             [status |-> "healthy", database |-> "connected"])
               ELSE Response("health_check", 503, connected, None,
                             DetailUnavailable)
    /\ UNCHANGED <<storeUp, products, orders, nextOid, pending>>

\* the response leaves the process, which takes the next request
SendResponse ==
    /\ resp # NoResp
    /\ resp' = NoResp
    /\ UNCHANGED <<storeUp, connected, products, orders, nextOid, pending>>

Next ==
    \/ StoreGoesDown
    \/ StoreComesUp
    \/ ExtDeleteProduct
    \/ ExtUpdatePrice
    \/ create_product
    \/ list_products
    \/ CreateOrderCheck
    \/ CreateOrderInsert
    \/ get_user_orders
    \/ root
    \/ health_check
    \/ SendResponse

Spec == Init /\ [][Next]_vars

\* ------------------------------------------------------------- properties
DataOps == {"create_product", "list_products", "create_order", "get_user_orders"}

Range(f) == {f[i] : i \in DOMAIN f}

\* a handler answered in this step
Answered == resp = NoResp /\ resp' # NoResp

\* this step is create_order's validation: it answers, or it goes on to insert
CheckStep == resp = NoResp /\ pending = None
             /\ (pending' # None \/ (resp' # NoResp /\ resp'.op = "create_order"))

\* the order create_order's validation is looking at in a CheckStep
CheckedOrder == IF pending' # None THEN pending'[1].order ELSE resp'.req

\* this step is create_order's insert
InsertStep == pending # None /\ pending' = None

WellFormed(productId) == productId[1] # "bad"

\* some product of the collection has the id this string spells
Resolves(productId) == \E p \in Range(products) : p._id = productId[2]

\* C1: a create_order request with a well-formed productId that matches no
\* product is answered 400 'One or more products not found' and leaves the
\* orders collection as it was (store reachable).
C1_UnknownProductRejected ==
    [][ (CheckStep /\ storeUp
         /\ \E i \in DOMAIN CheckedOrder.items :
               /\ WellFormed(CheckedOrder.items[i].productId)
               /\ ~Resolves(CheckedOrder.items[i].productId))
        => (/\ resp' # NoResp
            /\ resp'.status = 400
            /\ resp'.body = DetailNotFound
            /\ orders' = orders) ]_vars

\* C2: a create_order request naming the same existing product in two line
\* items passes validation, and the order stored for it keeps every line item
\* in request order.
C2_DuplicateLineItemsAccepted ==
    [][ (CheckStep /\ storeUp
         /\ (\A k \in DOMAIN CheckedOrder.items :
               /\ WellFormed(CheckedOrder.items[k].productId)
               /\ Resolves(CheckedOrder.items[k].productId))
         /\ (\E i, j \in DOMAIN CheckedOrder.items :
               i # j /\ CheckedOrder.items[i].productId[2]
                        = CheckedOrder.items[j].productId[2]))
        => (pending' # None /\ resp' = NoResp) ]_vars

\* C3: a create_order request with a malformed productId is answered 400
\* (not 500) and inserts no order (store reachable).
C3_MalformedIdIsValidationFailure ==
    [][ (CheckStep /\ storeUp
         /\ \E i \in DOMAIN CheckedOrder.items :
               ~WellFormed(CheckedOrder.items[i].productId))
        => (/\ resp' # NoResp
            /\ resp'.status = 400
            /\ orders' = orders) ]_vars

\* C4: a data request handled while the store is unreachable is answered 503,
\* whether or not the handle was established earlier.
C4_UnreachableStoreIs503 ==
    (resp.op \in DataOps /\ ~storeUp) => resp.status = 503

RECURSIVE DecimalValue(_)
DecimalValue(str) ==
    IF str = <<>> THEN 0
    ELSE 10 * DecimalValue(SubSeq(str, 1, Len(str) - 1))
         + (CHOOSE d \in 0..9 : DigitChars[d + 1] = str[Len(str)])

\* the page block the pagination contract asks for
PageAsSpecified(page, offset, limit, total_count) ==
    /\ (page.next # None) <=> (offset + limit < total_count)
    /\ page.next # None =>
          /\ Len(page.next[1]) >= 1
          /\ \A i \in DOMAIN page.next[1] : page.next[1][i] \in Range(DigitChars)
          /\ (Len(page.next[1]) > 1 => page.next[1][1] # "0")
          /\ DecimalValue(page.next[1]) = offset + limit
    /\ (page.previous # None) <=> (offset > 0)
    /\ page.previous # None =>
          page.previous[1] = (IF offset - limit > 0 THEN offset - limit ELSE 0)
    /\ page.limit = limit

\* the product matches what GET /products was asked for: a name given and not
\* empty occurs in its name in either case, a size given and not empty is
\* the size of one of its size entries
ProductWanted(p, req) ==
    /\ (req.name # None /\ Len(req.name[1]) > 0) =>
          \E i \in 1..Len(p.name), j \in 0..Len(p.name) :
              /\ j >= i
              /\ j - i + 1 = Len(req.name[1])
              /\ \A k \in i..j : ToLower(p.name[k]) = ToLower(req.name[1][k - i + 1])
    /\ (req.size # None /\ Len(req.size[1]) > 0) =>
          \E e \in Range(p.sizes) : e.size = req.size[1]

\* the products GET /products was asked for, in insertion order
ProductsWanted(req) ==
    LET Wanted(p) == ProductWanted(p, req)
    IN  SelectSeq(products, Wanted)

\* the orders of a user, in insertion order
OrdersOf(user_id) ==
    LET Mine(o) == o.userId = user_id
    IN  SelectSeq(orders, Mine)

\* C6: in both listings next is present iff offset+limit < total_count and is
\* then offset+limit as a decimal string, previous is present iff offset > 0
\* and is then max(0, offset-limit), and limit is the requested limit.
C6_PaginationContract ==
    /\ (resp.op = "list_products" /\ resp.status = 200) =>
          PageAsSpecified(resp.body.page, resp.req.offset, resp.req.limit,
                          Len(ProductsWanted(resp.req)))
    /\ (resp.op = "get_user_orders" /\ resp.status = 200) =>
          PageAsSpecified(resp.body.page, resp.req.offset, resp.req.limit,
                          Len(OrdersOf(resp.req.user_id)))

\* a listing answered with both next and previous present
C6_Witness ==
    /\ resp.op \in {"list_products", "get_user_orders"}
    /\ resp.status = 200
    /\ resp.body.page.next # None
    /\ resp.body.page.previous # None
    /\ resp.body.page.previous[1] = 0

\* the current product a stored line item refers to
ProductOf(item) == CHOOSE p \in Range(products) : p._id = item.productId[2]

ItemResolves(item) == Resolves(item.productId)

RECURSIVE SumOver(_, _)
SumOver(f, S) ==
    IF S = {} THEN 0
    ELSE LET i == CHOOSE x \in S : TRUE IN f[i] + SumOver(f, S \ {i})

\* the listing of one stored order that C7 asks for
OrderAsSpecified(data, order) ==
    LET kept == SelectSeq(order.items, ItemResolves)
        amount == [i \in DOMAIN kept |-> ProductOf(kept[i]).price * kept[i].qty]
    IN  /\ Len(data.items) = Len(kept)
        /\ \A i \in DOMAIN kept :
              /\ data.items[i].productDetails.id = kept[i].productId
              /\ data.items[i].productDetails.name = ProductOf(kept[i]).name
              /\ data.items[i].qty = kept[i].qty
        /\ data.total = SumOver(amount, DOMAIN kept)

\* C7: every order listed by get_user_orders holds exactly the stored line
\* items whose product exists now, in stored order, and its total is the sum
\* of current price times qty over those items.
C7_OrderTotalsAtReadTime ==
    (resp.op = "get_user_orders" /\ resp.status = 200) =>
        LET mine == OrdersOf(resp.req.user_id)
            data == resp.body.data
        IN  \A k \in DOMAIN data :
                OrderAsSpecified(data[k], mine[resp.req.offset + k])

\* an order listed after one of its two products was removed: one line item
\* left, and a total that is that item's alone
C7_Witness ==
    /\ resp.op = "get_user_orders"
    /\ resp.status = 200
    /\ \E k \in DOMAIN resp.body.data :
          LET order == OrdersOf(resp.req.user_id)[resp.req.offset + k]
          IN  /\ Len(order.items) = 2
              /\ Len(resp.body.data[k].items) = 1
              /\ resp.body.data[k].items[1].qty = 2
              /\ resp.body.data[k].total > 0

\* C8: when a product of the order was removed after the existence check
\* passed, the insert still goes through: create_order answers 201 and the
\* orders collection gains the order, line items as requested, one of them
\* naming a product that no longer exists.
C8_CheckAndInsertAreNotAtomic ==
    [][ (InsertStep /\ storeUp
         /\ \E i \in DOMAIN pending[1].order.items :
               ~Resolves(pending[1].order.items[i].productId))
        => (/\ resp' # NoResp
            /\ resp'.op = "create_order"
            /\ resp'.status = 201
            /\ Len(orders') = Len(orders) + 1
            /\ SubSeq(orders', 1, Len(orders)) = orders
            /\ orders'[Len(orders')].userId = pending[1].order.userId
            /\ orders'[Len(orders')].items = pending[1].order.items
            /\ products' = products) ]_vars

\* create_order answered 201 and the order it stored names a missing product
C8_Witness ==
    /\ resp.op = "create_order"
    /\ resp.status = 201
    /\ orders # <<>>
    /\ orders[Len(orders)].items = resp.req.items
    /\ \E i \in DOMAIN resp.req.items : ~Resolves(resp.req.items[i].productId)

\* C9: list_products answers with the products at positions offset+1 ..
\* offset+limit of the insertion-ordered products that match the filter (a
\* size filter keeps the products with a size entry equal to it; an empty
\* size or name is no filter), each as {id, name, price}, and its page block
\* counts all matching products whatever limit and offset are.
C9_ListProductsWindow ==
    (resp.op = "list_products" /\ resp.status = 200) =>
        LET wanted == ProductsWanted(resp.req)
            data == resp.body.data
            offset == resp.req.offset
            limit == resp.req.limit
            left == Len(wanted) - offset
        IN  /\ Len(data) = (IF left <= 0 THEN 0 ELSE IF left < limit THEN left ELSE limit)
            /\ Len(data) <= limit
            /\ \A k \in DOMAIN data :
                  /\ DOMAIN data[k] = {"id", "name", "price"}
                  /\ data[k].id = <<"hex", wanted[offset + k]._id>>
                  /\ data[k].name = wanted[offset + k].name
                  /\ data[k].price = wanted[offset + k].price
            /\ (resp.body.page.next # None) <=> (offset + limit < Len(wanted))

\* a size-filtered listing that skips a matching product, stops at the limit
\* and leaves out a product without that size
C9_Witness ==
    /\ resp.op = "list_products"
    /\ resp.status = 200
    /\ resp.req.size = Some(<<"M">>)
    /\ resp.req.offset = 1
    /\ Len(resp.body.data) = 1
    /\ Len(ProductsWanted(resp.req)) = 2
    /\ Len(products) = 3

ReadOps == {"list_products", "get_user_orders", "root", "health_check"}

\* C10: the listings, root and health_check leave both collections alone;
\* create_product leaves orders alone and appends exactly one product when it
\* answers 201, nothing otherwise; create_order leaves products alone and
\* appends exactly one order, status "created", when it answers 201, nothing
\* otherwise; stored documents are never changed or removed by a handler.
C10_Frame ==
    [][ /\ (Answered /\ resp'.op \in ReadOps) =>
              (products' = products /\ orders' = orders)
        /\ (Answered /\ resp'.op = "create_product") =>
              /\ orders' = orders
              /\ IF resp'.status = 201
                 THEN /\ Len(products') = Len(products) + 1
                      /\ SubSeq(products', 1, Len(products)) = products
                      /\ products'[Len(products')].name = resp'.req.name
                 ELSE products' = products
        /\ (Answered /\ resp'.op = "create_order") =>
              /\ products' = products
              /\ IF resp'.status = 201
                 THEN /\ Len(orders') = Len(orders) + 1
                      /\ SubSeq(orders', 1, Len(orders)) = orders
                      /\ orders'[Len(orders')].status = "created"
                 ELSE orders' = orders
        /\ (CheckStep /\ pending' # None) =>
              (products' = products /\ orders' = orders) ]_vars

\* both creates have answered 201: the collections hold a product and an order
C10_Witness ==
    /\ resp.op = "create_order"
    /\ resp.status = 201
    /\ Len(orders) = 2
    /\ Len(products) = 1
====
